---------------------------- MODULE Spec2Model ----------------------------
(***************************************************************************)
(* A model of package cfg (cfg.go): the scanners HandleConfigValues,       *)
(* HandleConfigBlocks, HandleConfigLines, HandleConfigItems, the recursive *)
(* HandleConfigData, removeLeadingTabs and StringListToDict.               *)
(*                                                                         *)
(* A Go string is modelled as a sequence of one-character strings, so that *)
(* every regular expression of cfg.go is an operator over characters.      *)
(***************************************************************************)
EXTENDS Integers, Sequences, FiniteSets, TLC

NL == "\n"
TAB == "\t"
SP == " "

\* \w of Go's regexp: [0-9A-Za-z_]
WordChars ==
  {"a","b","c","d","e","f","g","h","i","j","k","l","m","n","o","p","q","r",
   "s","t","u","v","w","x","y","z","A","B","C","D","E","F","G","H","I","J",
   "K","L","M","N","O","P","Q","R","S","T","U","V","W","X","Y","Z","0","1",
   "2","3","4","5","6","7","8","9","_"}

Openers == {"<", "[", "{", "("}
Closers == {">", "]", "}", ")"}

\* matching = map[string]string{"<": ">", "[": "]", "{": "}", "(": ")"}
matching(o) ==
  CASE o = "<" -> ">"
    [] o = "[" -> "]"
    [] o = "{" -> "}"
    [] o = "(" -> ")"

(***************************************************************************)
(* String helpers (Go slicing, strings.Index).                             *)
(***************************************************************************)
\* s[i:] with 1-based i
From(s, i) == SubSeq(s, i, Len(s))

\* the first position j >= i whose character is not in C (Len(s)+1 if none):
\* where a greedy  C*  started at i stops
RECURSIVE SkipWhile(_, _, _)
SkipWhile(s, i, C) ==
  IF i <= Len(s) /\ s[i] \in C THEN SkipWhile(s, i + 1, C) ELSE i

\* the first position j >= i with s[j] = "\n", 0 if there is none
RECURSIVE IndexNL(_, _)
IndexNL(s, i) ==
  IF i > Len(s) THEN 0
  ELSE IF s[i] = NL THEN i
  ELSE IndexNL(s, i + 1)

\* the number of "\n" among the first n characters of s
RECURSIVE CountNL(_, _)
CountNL(s, n) ==
  IF n <= 0 THEN 0
  ELSE CountNL(s, n - 1) + (IF s[n] = NL THEN 1 ELSE 0)

\* s without its trailing characters in C
RECURSIVE TrimRight(_, _)
TrimRight(s, C) ==
  IF Len(s) > 0 /\ s[Len(s)] \in C THEN TrimRight(SubSeq(s, 1, Len(s) - 1), C)
  ELSE s

\* s without its leading characters in C
TrimLeft(s, C) == From(s, SkipWhile(s, 1, C))

NoMatch == [ok |-> FALSE]

(***************************************************************************)
(* findConfigValueRex:  (?ms) .*? ^ (\w+) SP* := SP* (.*?) SP* \n (.* )    *)
(* The lazy prefix makes the match start at the first line start where the *)
(* rest matches; the lazy value stops at the first newline and leaves the  *)
(* trailing spaces (only spaces) out of the value.                         *)
(***************************************************************************)
ValueAt(s, i) ==
  LET w == SkipWhile(s, i, WordChars)
      c == SkipWhile(s, w, {SP})
  IN  IF w > i /\ c + 1 <= Len(s) /\ s[c] = ":" /\ s[c + 1] = "="
      THEN LET v == SkipWhile(s, c + 2, {SP})
               n == IndexNL(s, v)
           IN  IF n = 0 THEN NoMatch
               ELSE [ok |-> TRUE, at |-> i,
                     label |-> SubSeq(s, i, w - 1),
                     value |-> TrimRight(SubSeq(s, v, n - 1), {SP}),
                     restAt |-> n + 1,
                     rest |-> From(s, n + 1)]
      ELSE NoMatch

(***************************************************************************)
(* findConfigStRex:  (?ms) .*? ^ (\w+) SP* (,)* SP* (<|[|{|paren) SP* \n   *)
(***************************************************************************)
StAt(s, i) ==
  LET w == SkipWhile(s, i, WordChars)
      a == SkipWhile(s, w, {SP})
      c == SkipWhile(s, a, {","})
      b == SkipWhile(s, c, {SP})
      z == SkipWhile(s, b + 1, {SP})
  IN  IF w > i /\ b <= Len(s) /\ s[b] \in Openers /\ z <= Len(s) /\ s[z] = NL
      THEN [ok |-> TRUE, at |-> i,
            label |-> SubSeq(s, i, w - 1),
            comma |-> IF c > a THEN <<",">> ELSE <<>>,
            open |-> s[b],
            restAt |-> z + 1,
            rest |-> From(s, z + 1)]
      ELSE NoMatch

(***************************************************************************)
(* findConfigEnRex:  (?ms) (.*?) \n ^ (one closer) (\n|$) and the rest     *)
(* The first newline that is followed by a line holding one closer only.   *)
(* The newline is part of the pattern: a closer on the first line of the   *)
(* searched text is not seen.                                              *)
(***************************************************************************)
\* the first p >= i with s[p] = "\n", s[p+1] in C and then "\n" or the end
RECURSIVE CloserFrom(_, _, _)
CloserFrom(s, i, C) ==
  LET p == IndexNL(s, i)
  IN  IF p = 0 \/ p + 1 > Len(s) THEN 0
      ELSE IF s[p + 1] \in C /\ (p + 2 > Len(s) \/ s[p + 2] = NL) THEN p
      ELSE CloserFrom(s, p + 1, C)

\* the newline in front of the closing line left in the contents
findConfigEnRexKeepsNewline(s) ==
  LET p == CloserFrom(s, 1, Closers)
  IN  IF p = 0 THEN NoMatch
      ELSE [ok |-> TRUE,
            contents |-> SubSeq(s, 1, p),
            close |-> s[p + 1],
            restAt |-> p + 2,
            rest |-> From(s, p + 2)]

findConfigEnRex(s) ==
  LET p == CloserFrom(s, 1, Closers)
  IN  IF p = 0 THEN NoMatch
      ELSE [ok |-> TRUE,
            contents |-> SubSeq(s, 1, p - 1),
            close |-> s[p + 1],
            restAt |-> p + 2,
            rest |-> From(s, p + 2)]

(***************************************************************************)
(* findConfigBlockRex:  (?ms) .*? ^ (\w+) SP* < \n (.*?) \n > (\n|$) rest  *)
(* findConfigLinesRex:  the same with [ and ]                              *)
(* findConfigItemsRex:  the same with { and }, and SP* (,)* SP* before {   *)
(* The opener must be followed by the newline at once; the closing line is *)
(* the first one holding this construct's own closer.                      *)
(***************************************************************************)
ConstructAt(s, i, o, commaOk) ==
  LET w == SkipWhile(s, i, WordChars)
      a == SkipWhile(s, w, {SP})
      c == IF commaOk THEN SkipWhile(s, a, {","}) ELSE a
      b == IF commaOk THEN SkipWhile(s, c, {SP}) ELSE a
  IN  IF w > i /\ b + 1 <= Len(s) /\ s[b] = o /\ s[b + 1] = NL
      THEN LET p == CloserFrom(s, b + 2, {matching(o)})
           IN  IF p = 0 THEN NoMatch
               ELSE [ok |-> TRUE, at |-> i,
                     label |-> SubSeq(s, i, w - 1),
                     comma |-> IF c > a THEN <<",">> ELSE <<>>,
                     contents |-> SubSeq(s, b + 2, p - 1),
                     restAt |-> p + 2,
                     rest |-> From(s, p + 2)]
      ELSE NoMatch

\* the line start after position i, 0 if there is none
NextLine(s, i) == LET n == IndexNL(s, i) IN IF n = 0 THEN 0 ELSE n + 1

\* the lazy prefix  .*? ^ : the first line start at or after i where the
\* rest of the pattern matches
RECURSIVE FirstValue(_, _)
FirstValue(s, i) ==
  IF i = 0 \/ i > Len(s) THEN NoMatch
  ELSE LET m == ValueAt(s, i)
       IN  IF m.ok THEN m ELSE FirstValue(s, NextLine(s, i))

RECURSIVE FirstSt(_, _)
FirstSt(s, i) ==
  IF i = 0 \/ i > Len(s) THEN NoMatch
  ELSE LET m == StAt(s, i)
       IN  IF m.ok THEN m ELSE FirstSt(s, NextLine(s, i))

RECURSIVE FirstConstruct(_, _, _, _)
FirstConstruct(s, i, o, commaOk) ==
  IF i = 0 \/ i > Len(s) THEN NoMatch
  ELSE LET m == ConstructAt(s, i, o, commaOk)
       IN  IF m.ok THEN m ELSE FirstConstruct(s, NextLine(s, i), o, commaOk)

findConfigValueRex(s) == FirstValue(s, 1)
findConfigStRex(s) == FirstSt(s, 1)
findConfigBlockRex(s) == FirstConstruct(s, 1, "<", FALSE)
findConfigLinesRex(s) == FirstConstruct(s, 1, "[", FALSE)
findConfigItemsRex(s) == FirstConstruct(s, 1, "{", TRUE)

(***************************************************************************)
(* The scanners.  Each returns the sequence of its callback invocations;   *)
(* field at is the position in the scanned text of the label that gave     *)
(* rise to the invocation (off is the length of the text already           *)
(* consumed); the callback receives the other fields.                      *)
(***************************************************************************)
\* for x := rex(str); x != nil; x = rex(x[3]) { f(x[1], x[2]) }
RECURSIVE ValuesFrom(_, _)
ValuesFrom(str, off) ==
  LET x == findConfigValueRex(str)
  IN  IF ~x.ok THEN <<>>
      ELSE <<[label |-> x.label, value |-> x.value, at |-> off + x.at]>>
           \o ValuesFrom(x.rest, off + x.restAt - 1)

\* the matches delivered last first
RECURSIVE Reversed(_)
Reversed(q) == IF q = <<>> THEN <<>> ELSE Append(Reversed(Tail(q)), Head(q))

HandleConfigValuesReversed(str) == Reversed(ValuesFrom(str, 0))

HandleConfigValues(str) == ValuesFrom(str, 0)

RECURSIVE BlocksFrom(_, _)
BlocksFrom(str, off) ==
  LET x == findConfigBlockRex(str)
  IN  IF ~x.ok THEN <<>>
      ELSE <<[label |-> x.label, block |-> x.contents, at |-> off + x.at]>>
           \o BlocksFrom(x.rest, off + x.restAt - 1)

\* the block data stripped of the whitespace around it, as line data is
HandleConfigBlocksStripped(str) ==
  LET bs == BlocksFrom(str, 0)
  IN  [k \in 1..Len(bs) |->
         [bs[k] EXCEPT !.block = TrimRight(TrimLeft(@, {SP, TAB}), {SP, TAB})]]

HandleConfigBlocks(str) == BlocksFrom(str, 0)

(***************************************************************************)
(* txt.ListToStringSlice and txt.SepListToStringSlice belong to package    *)
(* github.com/jayacarlson/txt, whose source is not part of this            *)
(* repository.  They are modelled from the documentation of cfg.go, the    *)
(* specification and the expected values of the tests: each line is        *)
(* trimmed, empty lines and lines starting with # are dropped; for items   *)
(* each remaining line is split on the separator and every item trimmed.   *)
(***************************************************************************)
White == {SP, TAB}

Trim(s) == TrimRight(TrimLeft(s, White), White)

\* s split at every character of C (empty fields kept)
RECURSIVE SplitAt(_, _)
SplitAt(s, C) ==
  LET j == SkipWhile(s, 1, {c \in {s[k] : k \in 1..Len(s)} : c \notin C})
  IN  IF j > Len(s) THEN <<s>>
      ELSE <<SubSeq(s, 1, j - 1)>> \o SplitAt(From(s, j + 1), C)

\* the concatenation of the sequences of the sequence q
RECURSIVE Flatten(_)
Flatten(q) == IF q = <<>> THEN <<>> ELSE Head(q) \o Flatten(Tail(q))

IsData(l) == l # <<>> /\ l[1] # "#"

ListToStringSlice(text) ==
  LET ls == SplitAt(text, {NL})
  IN  SelectSeq([k \in 1..Len(ls) |-> Trim(ls[k])], IsData)

NonEmpty(s) == s # <<>>

\* the items of one trimmed line
LineItems(l, sep) ==
  IF sep = <<SP>> THEN SelectSeq(SplitAt(l, White), NonEmpty)
  ELSE LET fs == SplitAt(l, {sep[1]})
       IN  [k \in 1..Len(fs) |-> Trim(fs[k])]

SepListToStringSlice(text, sep) ==
  LET ls == ListToStringSlice(text)
  IN  Flatten([k \in 1..Len(ls) |-> LineItems(ls[k], sep)])

RECURSIVE LinesFrom(_, _)
LinesFrom(str, off) ==
  LET x == findConfigLinesRex(str)
  IN  IF ~x.ok THEN <<>>
      ELSE <<[label |-> x.label, lines |-> ListToStringSlice(x.contents),
              at |-> off + x.at]>>
           \o LinesFrom(x.rest, off + x.restAt - 1)

HandleConfigLines(str) == LinesFrom(str, 0)

\* the separator of the comma-less form whatever follows the label
ItemSeparatorBlank(comma) == <<SP>>

\* if "" == x[2] { x[2] = " " }
ItemSeparator(comma) == IF comma = <<>> THEN <<SP>> ELSE comma

RECURSIVE ItemsFrom(_, _)
ItemsFrom(str, off) ==
  LET x == findConfigItemsRex(str)
  IN  IF ~x.ok THEN <<>>
      ELSE <<[label |-> x.label,
              list |-> SepListToStringSlice(x.contents, ItemSeparator(x.comma)),
              at |-> off + x.at]>>
           \o ItemsFrom(x.rest, off + x.restAt - 1)

HandleConfigItems(str) == ItemsFrom(str, 0)

(***************************************************************************)
(* dictRex:  ^ (\w+) SP* : SP* (.* )     no flags: ^ is the start of the   *)
(* entry and the value stops at a newline.                                 *)
(***************************************************************************)
dictRex(v) ==
  LET w == SkipWhile(v, 1, WordChars)
      a == SkipWhile(v, w, {SP})
  IN  IF w > 1 /\ a <= Len(v) /\ v[a] = ":"
      THEN LET b == SkipWhile(v, a + 1, {SP})
               n == IndexNL(v, b)
           IN  [ok |-> TRUE, key |-> SubSeq(v, 1, w - 1),
                value |-> SubSeq(v, b, IF n = 0 THEN Len(v) ELSE n - 1)]
      ELSE NoMatch

\* result[x[1]] = x[2]
MapSet(m, k, v) == [j \in DOMAIN m \cup {k} |-> IF j = k THEN v ELSE m[j]]

\* the first entry of a key kept instead of the last
RECURSIVE DictLoopFirst(_, _)
DictLoopFirst(l, result) ==
  IF l = <<>> THEN result
  ELSE LET x == dictRex(Head(l))
       IN  DictLoopFirst(Tail(l),
             IF x.ok /\ x.key \notin DOMAIN result
             THEN MapSet(result, x.key, x.value) ELSE result)

RECURSIVE DictLoop(_, _)
DictLoop(l, result) ==
  IF l = <<>> THEN result
  ELSE LET x == dictRex(Head(l))
       IN  DictLoop(Tail(l), IF x.ok THEN MapSet(result, x.key, x.value) ELSE result)

StringListToDict(l) == DictLoop(l, <<>>)

(***************************************************************************)
(* removeLeadingTabs                                                       *)
(***************************************************************************)
ErrIllegalDataBlock == "ErrIllegalDataBlock"
Nil == "nil"

RECURSIVE TabsLoop(_, _)
TabsLoop(src, result) ==
  IF Len(src) = 0 THEN [err |-> Nil, result |-> result]
  ELSE LET c == src[1]
           i == IndexNL(src, 1) - 1     \* strings.Index, -1 if absent
       IN  IF i > 0 /\ c = TAB
             THEN TabsLoop(From(src, i + 2), result \o SubSeq(src, 2, i + 1))
           ELSE IF i = 0 /\ c = NL
             THEN TabsLoop(From(src, i + 2), result \o <<NL>>)
           ELSE [err |-> ErrIllegalDataBlock, result |-> <<>>]

\* every leading tab of a line removed instead of one
RECURSIVE TabsLoopAll(_, _)
TabsLoopAll(src, result) ==
  IF Len(src) = 0 THEN [err |-> Nil, result |-> result]
  ELSE LET c == src[1]
           i == IndexNL(src, 1) - 1
       IN  IF i > 0 /\ c = TAB
             THEN TabsLoopAll(From(src, i + 2),
                    result \o TrimLeft(SubSeq(src, 2, i + 1), {TAB}))
           ELSE IF i = 0 /\ c = NL
             THEN TabsLoopAll(From(src, i + 2), result \o <<NL>>)
           ELSE [err |-> ErrIllegalDataBlock, result |-> <<>>]

removeLeadingTabsAll(src) == TabsLoopAll(src, <<>>)

removeLeadingTabs(src) == TabsLoop(src, <<>>)

(***************************************************************************)
(* State.                                                                  *)
(*   input    the text handed to the operation                             *)
(*   op       the exported function that was called ("none" before)        *)
(*   pc       "init", "run" (inside HandleConfigData) or "done"            *)
(*   out      what a standalone scanner delivered / a helper returned      *)
(*   stack    the activations of handleConfigData, innermost last          *)
(*   ret      the value the last finished nested activation returned       *)
(*   records  the invocations of HandleConfigData's callback f, in order   *)
(*   diag     the messages given to dbg.Error, in order                    *)
(*   result   the error value HandleConfigData returned                    *)
(***************************************************************************)
VARIABLES input, op, pc, out, stack, ret, records, diag, result

vars == <<input, op, pc, out, stack, ret, records, diag, result>>

ConfigBlock == "ConfigBlock"
ConfigLines == "ConfigLines"
ConfigItems == "ConfigItems"
ConfigValue == "ConfigValue"

\* if lp != "" { l = lp + ":" + l }            (the closure given to
\* HandleConfigValues)
ValueLabel(lp, l) == IF lp # <<>> THEN lp \o <<":">> \o l ELSE l

\* the path composed without the test  lp != ""
lblPathUnguarded(lp, l) == lp \o <<":">> \o l

\* lblPath := s[1]; if lp != "" { lblPath = lp + ":" + lblPath }
lblPath(lp, l) == IF lp # <<>> THEN lp \o <<":">> \o l ELSE l

(***************************************************************************)
(* One activation of handleConfigData(lp, str, f).  phase is the place in  *)
(* the loop: "loop" at the loop test, "find" after the values pre-pass and *)
(* the two matches s and e, "wait" while a nested activation runs.  The    *)
(* other fields are not program state: line is the number of the input     *)
(* line on which str starts, path the labels of the enclosing Data         *)
(* containers (outermost first) and conts the input lines of their         *)
(* openers.                                                                *)
(***************************************************************************)
Frame(lp, str, line, path, conts) ==
  [lp |-> lp, str |-> str, phase |-> "loop", s |-> NoMatch, e |-> NoMatch,
   line |-> line, path |-> path, conts |-> conts]

Top == stack[Len(stack)]

SetTop(f) == [stack EXCEPT ![Len(stack)] = f]

\* the input line of position at of the top activation's str
LineOf(at) == Top.line + CountNL(Top.str, at - 1)

\* return r from the top activation
Return(r) ==
  IF Len(stack) = 1
  THEN /\ stack' = <<>>
       /\ pc' = "done"
       /\ result' = r
       /\ ret' = ret
  ELSE /\ stack' = SubSeq(stack, 1, Len(stack) - 1)
       /\ ret' = r
       /\ UNCHANGED <<pc, result>>

\* f(ConfigValue, l, []string{v}) for one match of the pre-pass
ValueRecord(x) ==
  [type |-> ConfigValue, label |-> ValueLabel(Top.lp, x.label),
   data |-> <<x.value>>,
   own |-> x.label, line |-> LineOf(x.at), path |-> Top.path,
   conts |-> Top.conts]

\* e[2] == matching[s[3]] and no comma in front of an opener other than {
Accepted(f) ==
  /\ f.s.ok
  /\ f.e.ok
  /\ f.e.close = matching(f.s.open)
  /\ ~(f.s.open # "{" /\ f.s.comma # <<>>)

\* the position in str at which e[3] starts
RestAt(f) == f.s.restAt - 1 + f.e.restAt

\* the top activation after  str = e[3]
Advanced ==
  [Top EXCEPT !.str = Top.e.rest, !.phase = "loop", !.line = LineOf(RestAt(Top))]

ConstructRecord(type, data) ==
  [type |-> type, label |-> lblPath(Top.lp, Top.s.label), data |-> data,
   own |-> Top.s.label, line |-> LineOf(Top.s.at), path |-> Top.path,
   conts |-> Top.conts]

Running == pc = "run" /\ stack # <<>>

(***************************************************************************)
(* HandleConfigData(str, f): handleConfigData("", str, f)                  *)
(***************************************************************************)
CallData ==
  /\ pc = "init"
  /\ pc' = "run"
  /\ op' = "data"
  /\ stack' = <<Frame(<<>>, input, 1, <<>>, <<>>)>>
  /\ UNCHANGED <<input, out, ret, records, diag, result>>

\* e := findConfigEnRex(s[4]) when s != nil
EnMatch(s) == IF s.ok THEN findConfigEnRex(s.rest) ELSE NoMatch

\* for "" != str { HandleConfigValues(str, func ...); s := ...; e := ...
ScanValues ==
  /\ Running
  /\ Top.phase = "loop"
  /\ Top.str # <<>>
  /\ LET vs == HandleConfigValues(Top.str)
         s == findConfigStRex(Top.str)
     IN  /\ records' = records \o [k \in 1..Len(vs) |-> ValueRecord(vs[k])]
         /\ stack' = SetTop([Top EXCEPT !.phase = "find", !.s = s, !.e = EnMatch(s)])
  /\ UNCHANGED <<input, op, pc, out, ret, diag, result>>

\* the loop test fails: return nil
LoopExit ==
  /\ Running
  /\ Top.phase = "loop"
  /\ Top.str = <<>>
  /\ Return(Nil)
  /\ UNCHANGED <<input, op, out, records, diag>>

\* s == nil: str = ""
NoConstruct ==
  /\ Running
  /\ Top.phase = "find"
  /\ ~Top.s.ok
  /\ stack' = SetTop([Top EXCEPT !.str = <<>>, !.phase = "loop"])
  /\ UNCHANGED <<input, op, pc, out, ret, records, diag, result>>

\* dbg.Error(...); break: the loop is left and the activation returns nil
Break(msg) ==
  /\ diag' = Append(diag, [msg |-> msg, label |-> Top.s.label,
                           depth |-> Len(stack), nrec |-> Len(records)])
  /\ Return(Nil)
  /\ UNCHANGED <<input, op, out, records>>

MissingEnd ==
  /\ Running
  /\ Top.phase = "find"
  /\ Top.s.ok
  /\ ~Top.e.ok
  /\ Break("Missing end char")

InvalidEnd ==
  /\ Running
  /\ Top.phase = "find"
  /\ Top.s.ok
  /\ Top.e.ok
  /\ Top.e.close # matching(Top.s.open)
  /\ Break("Invalid end char")

IllegalComma ==
  /\ Running
  /\ Top.phase = "find"
  /\ Top.s.ok
  /\ Top.e.ok
  /\ Top.e.close = matching(Top.s.open)
  /\ Top.s.open # "{" /\ Top.s.comma # <<>>
  /\ Break("Illegal config data")

\* case "(": st, err := removeLeadingTabs(e[1] + "\n")
Dedent(f) == removeLeadingTabs(f.e.contents \o <<NL>>)

\* nil == err: handleConfigData(lblPath, st, f)
EnterData ==
  /\ Running
  /\ Top.phase = "find"
  /\ Accepted(Top)
  /\ Top.s.open = "("
  /\ LET d == Dedent(Top)
     IN  /\ d.err = Nil
         /\ stack' = Append(
              SetTop([Top EXCEPT !.phase = "wait"]),
              Frame(lblPath(Top.lp, Top.s.label), d.result,
                    LineOf(Top.s.restAt), Append(Top.path, Top.s.label),
                    Append(Top.conts, LineOf(Top.s.at))))
  /\ UNCHANGED <<input, op, pc, out, ret, records, diag, result>>

\* removeLeadingTabs failed: return err
IllegalDataBlock ==
  /\ Running
  /\ Top.phase = "find"
  /\ Accepted(Top)
  /\ Top.s.open = "("
  /\ LET d == Dedent(Top)
     IN  /\ d.err # Nil
         /\ Return(d.err)
  /\ UNCHANGED <<input, op, out, records, diag>>

\* the nested activation returned nil: str = e[3]
ResumeAfterData ==
  /\ Running
  /\ Top.phase = "wait"
  /\ ret = Nil
  /\ stack' = SetTop(Advanced)
  /\ UNCHANGED <<input, op, pc, out, ret, records, diag, result>>

\* the error of the nested activation dropped: the loop goes on
PropagateErrorDropped ==
  /\ Running
  /\ Top.phase = "wait"
  /\ ret # Nil
  /\ stack' = SetTop(Advanced)
  /\ UNCHANGED <<input, op, pc, out, ret, records, diag, result>>

\* if nil != err { return err }
PropagateError ==
  /\ Running
  /\ Top.phase = "wait"
  /\ ret # Nil
  /\ Return(ret)
  /\ UNCHANGED <<input, op, out, records, diag>>

\* case "<": f(ConfigBlock, lblPath, []string{e[1]})
DeliverBlock ==
  /\ Running
  /\ Top.phase = "find"
  /\ Accepted(Top)
  /\ Top.s.open = "<"
  /\ records' = Append(records, ConstructRecord(ConfigBlock, <<Top.e.contents>>))
  /\ stack' = SetTop(Advanced)
  /\ UNCHANGED <<input, op, pc, out, ret, diag, result>>

\* case "[": f(ConfigLines, lblPath, txt.ListToStringSlice(e[1]))
DeliverLines ==
  /\ Running
  /\ Top.phase = "find"
  /\ Accepted(Top)
  /\ Top.s.open = "["
  /\ records' = Append(records,
        ConstructRecord(ConfigLines, ListToStringSlice(Top.e.contents)))
  /\ stack' = SetTop(Advanced)
  /\ UNCHANGED <<input, op, pc, out, ret, diag, result>>

\* default: f(ConfigItems, lblPath, txt.SepListToStringSlice(e[1], s[2]))
DeliverItems ==
  /\ Running
  /\ Top.phase = "find"
  /\ Accepted(Top)
  /\ Top.s.open = "{"
  /\ records' = Append(records,
        ConstructRecord(ConfigItems,
          SepListToStringSlice(Top.e.contents, ItemSeparator(Top.s.comma))))
  /\ stack' = SetTop(Advanced)
  /\ UNCHANGED <<input, op, pc, out, ret, diag, result>>

(***************************************************************************)
(* The standalone scanners and helpers, each applied to the input.         *)
(***************************************************************************)
Standalone(name, value) ==
  /\ pc = "init"
  /\ pc' = "done"
  /\ op' = name
  /\ out' = value
  /\ UNCHANGED <<input, stack, ret, records, diag, result>>

CallValues == Standalone("values", HandleConfigValues(input))
CallBlocks == Standalone("blocks", HandleConfigBlocks(input))
CallLines == Standalone("lines", HandleConfigLines(input))
CallItems == Standalone("items", HandleConfigItems(input))

\* the list handed to StringListToDict: the lines of the input
InputLines == SplitAt(input, {NL})
CallDict == Standalone("dict", StringListToDict(InputLines))

\* removeLeadingTabs(e[1] + "\n") with the input as the interior e[1]
CallTabs == Standalone("tabs", removeLeadingTabs(input \o <<NL>>))

Next ==
  \/ CallData
  \/ ScanValues
  \/ LoopExit
  \/ NoConstruct
  \/ MissingEnd
  \/ InvalidEnd
  \/ IllegalComma
  \/ EnterData
  \/ IllegalDataBlock
  \/ ResumeAfterData
  \/ PropagateError
  \/ DeliverBlock
  \/ DeliverLines
  \/ DeliverItems
  \/ CallValues
  \/ CallBlocks
  \/ CallLines
  \/ CallItems
  \/ CallDict
  \/ CallTabs

(***************************************************************************)
(* The texts the operations are applied to.                                *)
(***************************************************************************)
MaxLines == 2
MaxSegs == 2
MaxDepth == 2

\* the sequences of 1..n elements of the set V
RECURSIVE SeqsUpTo(_, _)
SeqsUpTo(V, n) ==
  IF n = 0 THEN {}
  ELSE LET shorter == SeqsUpTo(V, n - 1)
       IN  {<<v>> : v \in V} \cup shorter \cup {Append(q, v) : q \in shorter, v \in V}

\* the lines ls, each followed by a newline
RECURSIVE Join(_)
Join(ls) == IF ls = <<>> THEN <<>> ELSE Head(ls) \o <<NL>> \o Join(Tail(ls))

\* the same text with or without the newline of the last line
Endings(txt) == {txt, SubSeq(txt, 1, Len(txt) - 1)}

LineTexts(V) == UNION {Endings(Join(ls)) : ls \in SeqsUpTo(V, MaxLines)}

\* lines around  label := value
ValueLines ==
  {<<"a", SP, ":", "=", SP, "1">>,
   <<"b", ":", "=">>,
   <<"a", SP, ":", "=", TAB, "x", TAB>>,
   <<SP, "c", SP, ":", "=", SP, "2">>,
   <<"k", SP, SP, ":", "=", SP, SP, "v", SP, "w", SP, SP>>,
   <<"z", "z">>}

\* entries around  key : value
DictLines ==
  {<<"k", SP, ":", SP, "v">>,
   <<"k", ":", "w", SP>>,
   <<"j", SP, ":">>,
   <<"k", SP, ":", "=", SP, "u">>,
   <<SP, "k", ":", SP, "x">>,
   <<"z", "z">>}

\* lines of a Data container's interior
TabLines ==
  {<<TAB, "x">>,
   <<>>,
   <<TAB>>,
   <<TAB, TAB, "y", SP, ":">>,
   <<"x">>,
   <<SP, TAB, "z">>}

\* openers of a Block
BlockOpeners ==
  {<<"b", "<", NL>>,
   <<"b", SP, SP, "<", NL>>}

\* interior lines of a Block
BlockLines ==
  {<<>>,
   <<SP, "x", SP>>,
   <<"#", "c">>,
   <<">">>,
   <<">", SP>>,
   <<TAB, ">">>,
   <<"c", SP, "<">>,
   <<"]">>}

\* openers of an Items construct
ItemOpeners ==
  {<<"i", SP, "{", NL>>,
   <<"i", SP, ",", SP, "{", NL>>,
   <<"i", ",", "{", NL>>}

\* interior lines of an Items construct
ItemLines ==
  {<<SP, "a", ",", SP, "b", SP, "c", SP>>,
   <<"#", SP, "c", ",", "d">>,
   <<>>,
   <<TAB>>,
   <<"p", TAB, "q">>,
   <<"x", SP, ",", "y", SP, "z", ",">>}

BlockTexts ==
  UNION {Endings(o \o Join(ls) \o <<">", NL>>) :
           o \in BlockOpeners, ls \in SeqsUpTo(BlockLines, MaxLines)}

ItemTexts ==
  {o \o Join(ls) \o <<"}", NL>> : o \in ItemOpeners, ls \in SeqsUpTo(ItemLines, MaxLines)}

\* constructs of a text without Data containers, good and malformed
Segments ==
  {<<"x", SP, ":", "=", SP, "1", NL>>,
   <<"y", SP, ":", "=", SP, "2", NL>>,
   <<"b", SP, "<", NL, "q", NL, ">", NL>>,
   <<"l", SP, "[", NL, SP, "a", NL, "#", "c", NL, "]", NL>>,
   <<"i", SP, ",", SP, "{", NL, SP, "a", ",", SP, "b", NL, "c", SP, "d", NL, "}", NL>>,
   <<"j", SP, "{", NL, SP, "a", SP, "b", NL, NL, "}", NL>>,
   <<"b", SP, "<", SP, NL, "q", NL, ">", NL>>,
   <<"c", SP, "<", NL, "q", NL, "]", NL, ">", NL>>,
   <<"u", SP, "[", NL, "q", NL>>,
   <<"m", ",", SP, "<", NL, "q", NL, ">", NL>>}

\* the concatenations of 1..MaxSegs segments
FlatTexts == {Flatten(q) : q \in SeqsUpTo(Segments, MaxSegs)}

\* what the innermost Data container holds
Leaves ==
  {<<"x", SP, ":", "=", SP, "1", NL>>,
   <<"b", SP, "<", NL, "q", NL, ">", NL>>,
   <<"l", SP, "[", NL, SP, "a", NL, "]", NL>>,
   <<"i", SP, ",", SP, "{", NL, SP, "a", ",", SP, "b", NL, "}", NL>>,
   <<"q", SP, "(", NL, "z", SP, ":", "=", SP, "3", NL, ")", NL>>,
   <<"u", SP, "[", NL, "q", NL>>,
   <<"c", SP, "<", NL, "q", NL, "]", NL>>,
   <<"m", ",", SP, "(", NL, TAB, "q", NL, ")", NL>>}

\* what precedes a Data container
Before ==
  {<<>>,
   <<"v", SP, ":", "=", SP, "0", NL>>}

\* what follows a Data container
After ==
  {<<>>,
   <<"w", SP, ":", "=", SP, "9", NL>>,
   <<"b", SP, "<", NL, "r", NL, ">", NL>>,
   <<"g", SP, "(", NL, TAB, "z", SP, ":", "=", SP, "5", NL, ")", NL>>}

\* top-level Data containers whose interior has a line without a leading tab
Untabbed ==
  {<<"v", SP, ":", "=", SP, "0", NL, "h", SP, "(", NL,
     "z", SP, ":", "=", SP, "5", NL, ")", NL, "w", SP, ":", "=", SP, "9", NL>>,
   <<"h", "(", NL, TAB, "x", SP, ":", "=", SP, "1", NL, NL, "z", NL, ")", NL,
     "b", SP, "<", NL, "r", NL, ">", NL>>}

\* a tab in front of every non-empty line of txt
RECURSIVE Indent(_)
Indent(txt) ==
  IF txt = <<>> THEN <<>>
  ELSE LET n == IndexNL(txt, 1)
           e == IF n = 0 THEN Len(txt) ELSE n
       IN  (IF e = 1 /\ n = 1 THEN <<>> ELSE <<TAB>>)
           \o SubSeq(txt, 1, e) \o Indent(From(txt, e + 1))

\* the label of the Data container at depth k
DataLabel(k) == <<"d", CASE k = 1 -> "1" [] k = 2 -> "2" [] k = 3 -> "3" [] OTHER -> "9">>

\* label ( body )
Data(label, body) == label \o <<SP, "(", NL>> \o Indent(body) \o <<")", NL>>

\* texts with Data containers nested exactly k deep
RECURSIVE Nested(_)
Nested(k) ==
  IF k = 0 THEN Leaves
  ELSE {p \o Data(DataLabel(k), body) \o a :
          p \in Before, body \in Nested(k - 1), a \in After}

NestedTexts == UNION {Nested(k) : k \in 1..MaxDepth}

Texts ==
  LineTexts(ValueLines) \cup LineTexts(DictLines) \cup LineTexts(TabLines)
    \cup BlockTexts \cup ItemTexts \cup FlatTexts \cup NestedTexts \cup Untabbed

Init ==
  /\ input \in Texts
  /\ op = "none"
  /\ pc = "init"
  /\ out = <<>>
  /\ stack = <<>>
  /\ ret = Nil
  /\ records = <<>>
  /\ diag = <<>>
  /\ result = Nil

Spec == Init /\ [][Next]_vars

(***************************************************************************)
(* Properties.  The delivered records are compared with what the input     *)
(* text says, read line by line.                                           *)
(***************************************************************************)
\* the lines of the input; a final newline ends the last line
TextLines(txt) ==
  LET ls == SplitAt(txt, {NL})
  IN  IF ls[Len(ls)] = <<>> THEN SubSeq(ls, 1, Len(ls) - 1) ELSE ls

\* line l is n tabs, then the label w, then a character that is no word
\* character (or nothing)
StartsWithLabel(l, n, w) ==
  /\ Len(l) >= n + Len(w)
  /\ \A i \in 1..n : l[i] = TAB
  /\ SubSeq(l, n + 1, n + Len(w)) = w
  /\ (Len(l) > n + Len(w) => l[n + Len(w) + 1] \notin WordChars)

\* the labels joined by single colons
RECURSIVE ColonJoin(_)
ColonJoin(labels) ==
  IF Len(labels) = 1 THEN labels[1]
  ELSE labels[1] \o <<":">> \o ColonJoin(Tail(labels))

\* record r was delivered for input line r.line, which lies inside the Data
\* containers opened on the lines r.conts with the labels r.path
Located(r) ==
  LET ls == TextLines(input)
  IN  /\ Len(r.path) = Len(r.conts)
      /\ r.line \in 1..Len(ls)
      /\ StartsWithLabel(ls[r.line], Len(r.path), r.own)
      /\ \A j \in 1..Len(r.conts) :
           /\ r.conts[j] \in 1..(r.line - 1)
           /\ (j > 1 => r.conts[j - 1] < r.conts[j])
           /\ StartsWithLabel(ls[r.conts[j]], j - 1, r.path[j])
           /\ "(" \in {ls[r.conts[j]][i] : i \in 1..Len(ls[r.conts[j]])}

\* C1: every record delivered for a construct inside Data containers labelled
\* L1 (outermost) to Ln carries the label L1:...:Ln:own, and a record of a
\* construct outside every container carries exactly its own label.
C1_LabelPath ==
  \A k \in 1..Len(records) :
    /\ Located(records[k])
    /\ records[k].label = ColonJoin(Append(records[k].path, records[k].own))

\* a Block, Lines or Items record two containers deep after a top-level Value
C1_Witness ==
  /\ pc = "done"
  /\ \E k \in 1..Len(records) :
       /\ Len(records[k].path) = 2
       /\ records[k].type # ConfigValue
       /\ records[k].label = records[k].path[1] \o <<":">> \o records[k].path[2]
                               \o <<":">> \o records[k].own
  /\ \E k \in 1..Len(records) : records[k].path = <<>> /\ records[k].label = records[k].own

\* q is an initial part of r
IsPrefix(q, r) == Len(q) <= Len(r) /\ SubSeq(r, 1, Len(q)) = q

\* some line of the interior is not empty and does not begin with a tab
HasUntabbedLine(interior) ==
  \E l \in {SplitAt(interior, {NL})[i] : i \in 1..Len(SplitAt(interior, {NL}))} :
    l # <<>> /\ l[1] # TAB

\* the top activation is about to dispatch a Data container whose interior
\* breaks the leading-tab rule
AtIllegalData ==
  /\ Running
  /\ Top.phase = "find"
  /\ Accepted(Top)
  /\ Top.s.open = "("
  /\ HasUntabbedLine(Top.e.contents)

\* ErrIllegalDataBlock is on its way out of HandleConfigData, or was returned
Failing ==
  \/ pc = "run" /\ ret = ErrIllegalDataBlock
  \/ pc = "done" /\ op = "data" /\ result = ErrIllegalDataBlock

\* C2: when HandleConfigData reaches a Data container, at any depth, whose
\* interior has a non-empty line without a leading tab, the violation is
\* detected at once, from then on the callback is not invoked again and the
\* call ends returning ErrIllegalDataBlock; the records delivered before stay
\* delivered.
C2_IllegalDataAborts ==
  [][ /\ (AtIllegalData => Failing')
      /\ (Failing => (Failing' /\ records' = records))
      /\ IsPrefix(records, records')
    ]_vars

\* an enclosing activation receives the error of a nested container after
\* records were delivered
C2_Witness ==
  /\ Running
  /\ Top.phase = "wait"
  /\ ret = ErrIllegalDataBlock
  /\ Len(stack) >= 1
  /\ records # <<>>

\* C3 (as claimed): once a malformed construct was reported (no closing line,
\* a closer of another kind, a comma before an opener other than {), the
\* callback is never invoked again, whatever the depth of the construct, and
\* HandleConfigData returns nil.
C3_MalformedStopsScan ==
  /\ \A k \in 1..Len(diag) : diag[k].nrec = Len(records)
  /\ (pc = "done" /\ op = "data" /\ diag # <<>> => result = Nil)

\* the Value records that are the first delivery of their input line
FirstValues ==
  {k \in 1..Len(records) :
     /\ records[k].type = ConfigValue
     /\ \A j \in 1..(k - 1) :
          ~(records[j].type = ConfigValue /\ records[j].line = records[k].line)}

\* C4 (as claimed): of two lines that produce Value records, the textually
\* earlier one is first delivered before the textually later one, also when
\* one lies inside a Data container and the other outside it.
C4_DocumentOrder ==
  \A j \in FirstValues : \A k \in FirstValues :
    records[j].line < records[k].line => j < k

\* conts q is a proper initial part of conts r: the level of q encloses the
\* container of r
Encloses(q, r) == Len(q) < Len(r) /\ SubSeq(r, 1, Len(q)) = q

\* C4 (amended): of two lines that produce Value records, the textually
\* earlier one is first delivered before the later one, except when the
\* earlier line lies inside a Data container nested in the level that
\* directly holds the later line: then the later line is delivered first.
C4_LevelOrder ==
  \A j \in FirstValues : \A k \in FirstValues :
    records[j].line < records[k].line =>
      IF Encloses(records[k].conts, records[j].conts) THEN k < j ELSE j < k

\* both cases happened in one scan: a line outside delivered before an
\* earlier line inside a container, and two lines of one level in order
C4_Witness ==
  /\ pc = "done"
  /\ \E j \in FirstValues : \E k \in FirstValues :
       /\ records[j].line < records[k].line
       /\ Encloses(records[k].conts, records[j].conts)
       /\ k < j
  /\ \E j \in FirstValues : \E k \in FirstValues :
       /\ records[j].line < records[k].line
       /\ records[j].conts = records[k].conts
       /\ j < k

\* the length of the label that starts line l and is followed by blanks,
\* then by the characters mark, then by what After allows; 0 if l has no such
\* shape.  cs is the set of characters allowed between label and mark.
LabelLen(l, cs, mark) ==
  LET fits == {w \in 1..Len(l) :
                 /\ \A i \in 1..w : l[i] \in WordChars
                 /\ \E m \in (w + 1)..(Len(l) - Len(mark) + 1) :
                      /\ \A i \in (w + 1)..(m - 1) : l[i] \in cs
                      /\ SubSeq(l, m, m + Len(mark) - 1) = mark
                      /\ (w + 1 < m => l[w + 1] \in cs)
                 /\ (w < Len(l) => l[w + 1] \notin WordChars)}
  IN  IF fits = {} THEN 0 ELSE CHOOSE w \in fits : TRUE

\* line l is  label, optional spaces, <  and nothing else
IsBlockOpener(l) ==
  /\ LabelLen(l, {SP}, <<"<">>) > 0
  /\ l[Len(l)] = "<"
  /\ \A i \in (LabelLen(l, {SP}, <<"<">>) + 1)..(Len(l) - 1) : l[i] = SP

\* the text is an opener line, one or more interior lines none of which is
\* exactly >, and a closing line that is exactly >
BlockShape(txt) ==
  LET ls == TextLines(txt)
  IN  /\ Len(ls) >= 3
      /\ IsBlockOpener(ls[1])
      /\ ls[Len(ls)] = <<">">>
      /\ \A i \in 2..(Len(ls) - 1) : ls[i] # <<">">>

\* the interior lines, each with its newline
Interior(txt) == Join(SubSeq(TextLines(txt), 2, Len(TextLines(txt)) - 1))

\* C5: for a text made of a Block opener line, an interior of one or more
\* lines none of which is exactly >, and a closing line >, HandleConfigBlocks
\* calls back exactly once, with the label and with the interior less its
\* last newline: appending a newline to the payload gives back the interior.
C5_BlockRoundTrip ==
  (op = "blocks" /\ BlockShape(input)) =>
    /\ Len(out) = 1
    /\ out[1].label = SubSeq(input, 1, LabelLen(TextLines(input)[1], {SP}, <<"<">>))
    /\ out[1].block \o <<NL>> = Interior(input)

\* a block whose interior holds a blank line or a comment line, and a line
\* with blanks at its ends
C5_Witness ==
  /\ op = "blocks"
  /\ BlockShape(input)
  /\ Len(out) = 1
  /\ LET ls == TextLines(input)
     IN  /\ \E i \in 2..(Len(ls) - 1) : ls[i] = <<>> \/ ls[i] = <<"#", "c">>
         /\ \E i \in 2..(Len(ls) - 1) : ls[i] # <<>> /\ ls[i][1] \in White

\* the lines of the text that end with a newline
TerminatedLines(txt) ==
  LET ls == SplitAt(txt, {NL}) IN SubSeq(ls, 1, Len(ls) - 1)

\* line l begins at column 0 with a label, optional spaces and :=
IsValueLine(l) == LabelLen(l, {SP}, <<":", "=">>) > 0

\* what the claim has HandleConfigValues deliver for a value line: the label
\* and the rest of the line after := less its leading and trailing whitespace
ClaimedValue(l) ==
  LET w == LabelLen(l, {SP}, <<":", "=">>)
      m == CHOOSE m \in (w + 1)..Len(l) :
             l[m] = ":" /\ \A i \in (w + 1)..(m - 1) : l[i] = SP
  IN  <<SubSeq(l, 1, w), Trim(From(l, m + 2))>>

ClaimedValues(txt) ==
  LET vl == SelectSeq(TerminatedLines(txt), IsValueLine)
  IN  [k \in 1..Len(vl) |-> ClaimedValue(vl[k])]

\* C6 (as claimed): HandleConfigValues calls back once, in textual order, for
\* every (newline-terminated) line that begins with a label, optional spaces
\* and :=, with the rest of the line less its leading and trailing whitespace
\* as the value, and for no other line.
C6_ValuesTrimmed ==
  op = "values" =>
    [k \in 1..Len(out) |-> <<out[k].label, out[k].value>>] = ClaimedValues(input)

\* the elements of a finite set of numbers in increasing order
RECURSIVE Sorted(_)
Sorted(S) ==
  IF S = {} THEN <<>>
  ELSE LET m == CHOOSE m \in S : \A n \in S : m <= n
       IN  <<m>> \o Sorted(S \ {m})

\* the maximal runs of characters of line l that are no whitespace
Words(l) ==
  LET starts == Sorted({i \in 1..Len(l) :
                          l[i] \notin White /\ (i = 1 \/ l[i - 1] \in White)})
      stop(i) == CHOOSE j \in i..Len(l) :
                   /\ \A n \in i..j : l[n] \notin White
                   /\ (j = Len(l) \/ l[j + 1] \in White)
  IN  [k \in 1..Len(starts) |-> SubSeq(l, starts[k], stop(starts[k]))]

\* the parts of line l between its commas, each less the whitespace around it
CommaFields(l) ==
  LET cuts == <<0>> \o Sorted({i \in 1..Len(l) : l[i] = ","}) \o <<Len(l) + 1>>
  IN  [k \in 1..(Len(cuts) - 1) |-> Trim(SubSeq(l, cuts[k] + 1, cuts[k + 1] - 1))]

\* a line that is blank, or whose first non-blank character is #
Skipped(l) == Trim(l) = <<>> \/ Trim(l)[1] = "#"

\* what the claim has an Items construct deliver for its interior lines
ClaimedItems(ls, comma) ==
  Flatten([k \in 1..Len(ls) |->
             IF Skipped(ls[k]) THEN <<>>
             ELSE IF comma THEN CommaFields(ls[k]) ELSE Words(ls[k])])

\* line l is  label, optional spaces, optional commas, optional spaces, {
IsItemsOpener(l) ==
  /\ LabelLen(l, {SP, ","}, <<"{">>) > 0
  /\ l[Len(l)] = "{"
  /\ LET w == LabelLen(l, {SP, ","}, <<"{">>)
         cs == {i \in (w + 1)..(Len(l) - 1) : l[i] = ","}
     IN  /\ \A i \in (w + 1)..(Len(l) - 1) : l[i] \in {SP, ","}
         /\ \A i \in cs : \A j \in cs : \A n \in i..j : l[n] = ","

\* the text is one Items construct: an opener line, interior lines none of
\* which is a closing line, and the closing line }
ItemsShape(txt) ==
  LET ls == TextLines(txt)
  IN  /\ Len(ls) >= 3
      /\ IsItemsOpener(ls[1])
      /\ ls[Len(ls)] = <<"}">>
      /\ \A i \in 2..(Len(ls) - 1) : ~(Len(ls[i]) = 1 /\ ls[i][1] \in Closers)

ItemsExpected(txt) ==
  LET ls == TextLines(txt)
  IN  ClaimedItems(SubSeq(ls, 2, Len(ls) - 1), "," \in {ls[1][i] : i \in 1..Len(ls[1])})

\* the payloads of the records of one type, in order of delivery
PayloadsOf(type) ==
  LET rs == SelectSeq(records, LAMBDA r : r.type = type)
  IN  [k \in 1..Len(rs) |-> <<rs[k].label, rs[k].data>>]

\* the items that are not empty (an empty field between or after commas is
\* left out of the comparison)
Kept(q) == SelectSeq(q, NonEmpty)

\* C7: HandleConfigItems, and the { case of HandleConfigData, split the
\* interior of an Items construct on runs of whitespace when no comma follows
\* the label and on commas when one does; with either separator blank lines
\* and lines whose first non-blank character is # give no item, and every
\* item is delivered without leading or trailing whitespace, in order.
C7_ItemsSplit ==
  /\ (op = "items" /\ ItemsShape(input)) =>
       /\ Len(out) = 1
       /\ Kept(out[1].list) = Kept(ItemsExpected(input))
       /\ \A i \in 1..Len(out[1].list) : Trim(out[1].list[i]) = out[1].list[i]
  /\ (op = "data" /\ pc = "done" /\ ItemsShape(input)) =>
       /\ Len(PayloadsOf(ConfigItems)) = 1
       /\ Kept(PayloadsOf(ConfigItems)[1][2]) = Kept(ItemsExpected(input))

\* an interior with a comment line, split on commas into items that keep
\* their inner whitespace
C7_Witness ==
  /\ op = "items"
  /\ ItemsShape(input)
  /\ "," \in {TextLines(input)[1][i] : i \in 1..Len(TextLines(input)[1])}
  /\ \E i \in 2..(Len(TextLines(input)) - 1) : TextLines(input)[i] = <<"#", SP, "c", ",", "d">>
  /\ Len(out) = 1
  /\ \E i \in 1..Len(out[1].list) : out[1].list[i] = <<"b", SP, "c">>

\* entry e has the shape  key : value  (a label at the start, optional
\* spaces, a colon)
IsDictEntry(e) == LabelLen(e, {SP}, <<":">>) > 0

DictKey(e) == SubSeq(e, 1, LabelLen(e, {SP}, <<":">>))

\* what follows the colon and the spaces after it
DictValue(e) ==
  LET m == CHOOSE m \in 1..Len(e) : e[m] = ":" /\ \A i \in 1..(m - 1) : e[i] # ":"
  IN  TrimLeft(From(e, m + 1), {SP})

\* C8: StringListToDict returns a map holding for every key the value of the
\* last entry of the shape key : value; other entries add no key, so the
\* number of keys never exceeds the number of entries.
C8_DictLastWins ==
  op = "dict" =>
    LET l == InputLines
        shaped == {i \in 1..Len(l) : IsDictEntry(l[i])}
    IN  /\ DOMAIN out = {DictKey(l[i]) : i \in shaped}
        /\ \A k \in DOMAIN out :
             \E i \in shaped :
               /\ DictKey(l[i]) = k
               /\ \A j \in shaped : DictKey(l[j]) = k => j <= i
               /\ out[k] = DictValue(l[i])
        /\ Cardinality(DOMAIN out) <= Len(l)

\* a list with two entries of one key and different values, or with an
\* entry that is no key : value
C8_Witness ==
  /\ op = "dict"
  /\ Len(InputLines) >= 2
  /\ IsDictEntry(InputLines[1])
  /\ IsDictEntry(InputLines[2])
  /\ DictKey(InputLines[1]) = DictKey(InputLines[2])
  /\ DictValue(InputLines[1]) # DictValue(InputLines[2])
  /\ out[DictKey(InputLines[1])] = DictValue(InputLines[2])

\* the lines of a text in which every line ends with a newline
LinesOf(txt) == SubSeq(SplitAt(txt, {NL}), 1, Len(SplitAt(txt, {NL})) - 1)

\* a tab put in front of every non-empty line
Retabbed(ls) == [i \in 1..Len(ls) |-> IF ls[i] = <<>> THEN <<>> ELSE <<TAB>> \o ls[i]]

\* removeLeadingTabs fails exactly when a line of the interior is not empty
\* and does not begin with a tab
TabsFailExactly ==
  (out.err = ErrIllegalDataBlock) <=> HasUntabbedLine(input)

\* C9 (as claimed): dedenting the interior removes one leading tab from every
\* non-blank line and keeps blank lines, the number of lines and their order,
\* so that putting a tab back in front of every non-blank line of the result
\* gives back the input; it fails exactly when a line of the interior is not
\* empty and does not begin with a tab.
C9_RoundTrip ==
  op = "tabs" =>
    /\ TabsFailExactly
    /\ out.err = Nil =>
         Join(Retabbed(LinesOf(out.result))) = input \o <<NL>>

\* C9 (amended): dedenting keeps the number and the order of the lines, keeps
\* every empty line and removes exactly one leading tab from every other
\* line, so that every non-empty line of the input is a tab followed by the
\* line of the result; putting a tab back in front of the non-empty lines of
\* the result gives back the input exactly when no line of the input is a
\* lone tab.  It fails exactly when a line of the interior is not empty and
\* does not begin with a tab.
C9_Dedent ==
  op = "tabs" =>
    /\ TabsFailExactly
    /\ out.err = Nil =>
         LET src == LinesOf(input \o <<NL>>)
             res == LinesOf(out.result)
         IN  /\ Join(res) = out.result
             /\ Len(res) = Len(src)
             /\ \A i \in 1..Len(src) :
                  IF src[i] = <<>> THEN res[i] = <<>> ELSE src[i] = <<TAB>> \o res[i]
             /\ (Join(Retabbed(res)) = input \o <<NL>>)
                  <=> (\A i \in 1..Len(src) : src[i] # <<TAB>>)

\* an interior with an empty line, a lone tab and a line with two tabs was
\* dedented
C9_Witness ==
  /\ op = "tabs"
  /\ out.err = Nil
  /\ \E i \in 1..Len(LinesOf(input \o <<NL>>)) : LinesOf(input \o <<NL>>)[i] = <<TAB>>
  /\ \E i \in 1..Len(LinesOf(out.result)) : LinesOf(out.result)[i] = <<TAB, "y", SP, ":">>

\* the position of the bracket of an opener line (a label, then spaces, a run
\* of commas and spaces, one opening bracket, then spaces only); 0 if line l
\* is no opener line
BracketAt(l) ==
  LET fits == {b \in 2..Len(l) :
                 /\ l[b] \in Openers
                 /\ \A i \in (b + 1)..Len(l) : l[i] = SP
                 /\ \E w \in 1..(b - 1) :
                      /\ \A i \in 1..w : l[i] \in WordChars
                      /\ \A i \in (w + 1)..(b - 1) : l[i] \in {SP, ","}
                      /\ \A i \in (w + 1)..(b - 1) : \A j \in i..(b - 1) :
                           (l[i] = "," /\ l[j] = ",") =>
                             \A n \in i..j : l[n] = ","}
  IN  IF fits = {} THEN 0 ELSE CHOOSE b \in fits : TRUE

IsOpenerLine(l) == BracketAt(l) > 0

\* a line that holds one closing bracket and nothing else
IsCloserLine(l) == Len(l) = 1 /\ l[1] \in Closers

\* no line of the text opens a Data container
NoDataOpener(txt) ==
  \A i \in 1..Len(TextLines(txt)) :
    LET l == TrimLeft(TextLines(txt)[i], {TAB})
    IN  ~(IsOpenerLine(l) /\ l[BracketAt(l)] = "(")

\* the opener line ends with its bracket and has a comma only before {
NeatOpener(l) ==
  /\ BracketAt(l) = Len(l)
  /\ ("," \in {l[i] : i \in 1..Len(l)} => l[Len(l)] = "{")

\* the lines from i on are well-formed constructs and other lines: each
\* opener line is neat and followed by one or more interior lines, none
\* an opener line or a closing line, and then by the closing line of its own
\* kind.  o is the bracket of the construct line i lies in ("" outside) and n
\* the number of its interior lines so far.
RECURSIVE WellFormedFrom(_, _, _, _)
WellFormedFrom(ls, i, o, n) ==
  IF i > Len(ls) THEN o = ""
  ELSE IF o = ""
    THEN IF IsOpenerLine(ls[i])
         THEN NeatOpener(ls[i]) /\ WellFormedFrom(ls, i + 1, ls[i][Len(ls[i])], 0)
         ELSE WellFormedFrom(ls, i + 1, "", 0)
  ELSE IF IsCloserLine(ls[i])
    THEN n >= 1 /\ ls[i][1] = matching(o) /\ WellFormedFrom(ls, i + 1, "", 0)
  ELSE ~IsOpenerLine(ls[i]) /\ WellFormedFrom(ls, i + 1, o, n + 1)

WellFormedFlat(txt) == WellFormedFrom(TextLines(txt), 1, "", 0)

\* HandleConfigData's records of the three construct kinds are those of the
\* standalone scanners on the same text
AgreesWithScanners ==
  LET bs == HandleConfigBlocks(input)
      ls == HandleConfigLines(input)
      is == HandleConfigItems(input)
  IN  /\ PayloadsOf(ConfigBlock) = [k \in 1..Len(bs) |-> <<bs[k].label, <<bs[k].block>>>>]
      /\ PayloadsOf(ConfigLines) = [k \in 1..Len(ls) |-> <<ls[k].label, ls[k].lines>>]
      /\ PayloadsOf(ConfigItems) = [k \in 1..Len(is) |-> <<is[k].label, is[k].list>>]

\* C10 (as claimed): for every text without a Data container opener the
\* Block, Lines and Items records of HandleConfigData are, in order, what
\* HandleConfigBlocks, HandleConfigLines and HandleConfigItems deliver.
C10_SameAsScanners ==
  (op = "data" /\ pc = "done" /\ NoDataOpener(input)) => AgreesWithScanners

\* C10 (amended): the same for every text without a Data container opener all
\* of whose constructs are well formed: every opener line ends with its
\* bracket and has a comma only before {, is followed by at least one
\* interior line, no interior line is an opener line or a closing line, and
\* the closing line carries the construct's own closer.
C10_SameOnWellFormed ==
  (op = "data" /\ pc = "done" /\ NoDataOpener(input) /\ WellFormedFlat(input))
    => AgreesWithScanners

\* a well-formed text whose scan delivered a Block and an Items record
C10_Witness ==
  /\ op = "data"
  /\ pc = "done"
  /\ NoDataOpener(input)
  /\ WellFormedFlat(input)
  /\ Len(PayloadsOf(ConfigBlock)) = 1
  /\ Len(PayloadsOf(ConfigItems)) = 1
  /\ AgreesWithScanners

\* C11 (as claimed): during one HandleConfigData call no two Value records
\* are delivered for the same line of the input: each  label := value  line
\* gives rise to at most one Value callback, however many constructs precede
\* it in the text.
C11_ValueOnce ==
  \A j \in 1..Len(records) : \A k \in 1..Len(records) :
    (j < k /\ records[j].type = ConfigValue /\ records[k].type = ConfigValue)
      => records[j].line # records[k].line

=============================================================================
